---- MODULE Spec2Model ----
(***************************************************************************)
(* A model of imsim/flat.py: LSST_FlatBuilder, the image builder that      *)
(* makes a flat field by adding low-level sky increments section by        *)
(* section.  The state is the builder's fields, the configuration          *)
(* dictionaries it reads and writes, the output image, and the locals of   *)
(* addNoise with its position in the section / iteration loops.            *)
(*                                                                         *)
(* Pixel values are exact rationals <<n, d>> in lowest terms (d > 0): the  *)
(* code's float arithmetic is modelled without rounding.                   *)
(* The galsim collaborators (BoundsI, Image, the sensor, the random        *)
(* deviate, the noise builder, the wavelength sampler) are modelled by     *)
(* what the calls made in flat.py do to the values flat.py goes on to use. *)
(***************************************************************************)
EXTENDS Integers, Sequences, FiniteSets, TLC

(***************************************************************************)
(* Bounds of the model.                                                    *)
(***************************************************************************)
\* Family "modes": every mode of the builder on a small image.
MaxXSize == 2
MaxYSize == 1
MaxBuffer == 1
MaxCounts == 2
\* Family "grid": mean-level mode on larger images and grids.
GridXSize == 5
GridYSize == 3
GridNx == 4
GridNy == 3
\* Family "sizing": the optional parameters, given or left to their defaults.
SizingCounts == 4
SizingPerIter == 2

(***************************************************************************)
(* Program constants.                                                      *)
(***************************************************************************)
DefaultBufferSize == 2
DefaultMaxCountsPerIter == 1000
DefaultNxSed == 16
DefaultNySed == 16
DefaultNx == 8
DefaultNy == 2
\* The modulus of the model's random deviate (galsim.BaseDeviate).
RngMod == 16

(***************************************************************************)
(* Exact rationals.                                                        *)
(***************************************************************************)
RECURSIVE GCD(_, _)
GCD(a, b) == IF b = 0 THEN a ELSE GCD(b, a % b)

Abs(n) == IF n < 0 THEN 0 - n ELSE n

Rat(n, d) ==
    LET g == GCD(Abs(n), d)
    IN  <<n \div g, d \div g>>

RInt(n) == <<n, 1>>
RZero == RInt(0)
RAdd(p, q) == Rat(p[1] * q[2] + q[1] * p[2], p[2] * q[2])
RMul(p, q) == Rat(p[1] * q[1], p[2] * q[2])
\* p / q for q > 0
RDiv(p, q) == Rat(p[1] * q[2], p[2] * q[1])
RFloor(p) == p[1] \div p[2]
RLeq(p, q) == p[1] * q[2] <= q[1] * p[2]

\* np.ceil(a / b) for a rational a / b with b > 0
Ceil(p) == 0 - ((0 - p[1]) \div p[2])

(***************************************************************************)
(* galsim.BoundsI and images over bounds.                                  *)
(***************************************************************************)
BoundsI(xmin, xmax, ymin, ymax) ==
    [xmin |-> xmin, xmax |-> xmax, ymin |-> ymin, ymax |-> ymax]

IsDefined(b) == b.xmin <= b.xmax /\ b.ymin <= b.ymax

withBorder(b, k) == BoundsI(b.xmin - k, b.xmax + k, b.ymin - k, b.ymax + k)

Includes(outer, inner) ==
    /\ IsDefined(outer)
    /\ IsDefined(inner)
    /\ outer.xmin <= inner.xmin
    /\ inner.xmax <= outer.xmax
    /\ outer.ymin <= inner.ymin
    /\ inner.ymax <= outer.ymax

\* The pixels <<x, y>> of bounds b; none when b is undefined.
Pixels(b) == (b.xmin .. b.xmax) \X (b.ymin .. b.ymax)

Area(b) == IF IsDefined(b)
           THEN (b.xmax - b.xmin + 1) * (b.ymax - b.ymin + 1)
           ELSE 0

\* galsim.ImageF(bounds): a zero image.
ZeroImage(b) == [bounds |-> b, val |-> [p \in Pixels(b) |-> RZero]]

NoImage == ZeroImage(BoundsI(1, 0, 1, 0))

\* image[b].copy()
SubImage(img, b) == [bounds |-> b, val |-> [p \in Pixels(b) |-> img.val[p]]]

\* The place of pixel p in the array of an image of bounds b: rows of
\* increasing y, x fastest.
ArrayIndex(b, p) == (p[2] - b.ymin) * (b.xmax - b.xmin + 1) + (p[1] - b.xmin) + 1

RECURSIVE RowSum(_, _, _, _)
RowSum(f, y, x, xmax) ==
    IF x > xmax THEN RZero ELSE RAdd(f[<<x, y>>], RowSum(f, y, x + 1, xmax))

RECURSIVE SumRows(_, _, _)
SumRows(f, b, y) ==
    IF y > b.ymax THEN RZero
    ELSE RAdd(RowSum(f, y, b.xmin, b.xmax), SumRows(f, b, y + 1))

SumImage(img) == IF IsDefined(img.bounds) THEN SumRows(img.val, img.bounds, img.bounds.ymin)
                 ELSE RZero

\* img.array.mean()
Mean(img) == RDiv(SumImage(img), RInt(Area(img.bounds)))

(***************************************************************************)
(* Dictionaries: a dict is a function from its keys, `k in d` is           *)
(* k \in DOMAIN d.                                                         *)
(***************************************************************************)
EmptyDict == [k \in {} |-> 0]
Has(d, k) == k \in DOMAIN d
\* d.get(k, default)
Get(d, k, default) == IF Has(d, k) THEN d[k] ELSE default
\* The dicts with key k bound to a value of S, and the dict without it.
Optional(k, S) == {EmptyDict} \cup {[x \in {k} |-> v] : v \in S}
Required(k, S) == {[x \in {k} |-> v] : v \in S}

(***************************************************************************)
(* The configurations the model starts from.  config is the image field's  *)
(* dict, base the base dict: base.wcs, the optional base.sensor and        *)
(* base.bandpass, base.noise for base['image']['noise'], and base.seed for *)
(* the state of the random deviate GetRNG returns for this image.          *)
(***************************************************************************)
SensorDicts == {[type |-> "Silicon"], [type |-> "Silicon", nrecalc |-> 7]}

\* Every mode on a small image, every optional parameter given.
ConfigsModes ==
    { a @@ b @@ c @@ d @@ e @@ f @@ g @@ h :
        a \in Required("counts_per_pixel", 1 .. MaxCounts),
        b \in Required("xsize", 1 .. MaxXSize),
        c \in Required("ysize", 1 .. MaxYSize),
        d \in Required("max_counts_per_iter", {1}),
        e \in Required("buffer_size", 0 .. MaxBuffer),
        f \in Required("nx", 1 .. MaxXSize),
        g \in Required("ny", 1 .. MaxYSize),
        h \in Optional("sed", {"sed"}) }

\* galsim reads base.bandpass only with a sed, and base.wcs and base.noise
\* only without one: the unread entries are kept at one value.  A silicon
\* sensor comes with Poisson noise, which keeps the accumulated counts whole.
BasesModes(cfg) ==
    UNION {
        { a @@ b @@ c @@ d @@ e :
            a \in Required("seed", {0, 1}),
            c \in IF Has(cfg, "sed") THEN Optional("bandpass", {"bandpass"})
                  ELSE Required("bandpass", {"bandpass"}),
            d \in IF Has(cfg, "sed") THEN Required("wcs", {"uniform"})
                  ELSE Required("wcs", {"uniform", "tilted"}),
            e \in IF Has(cfg, "sed") THEN {EmptyDict}
                  ELSE IF Has(b, "sensor") THEN Required("noise", {"Poisson"})
                  ELSE Optional("noise", {"Poisson"}) }
        : b \in Optional("sensor", {"SiliconSensor"}) }

\* Mean-level mode on larger images and grids, grids finer than the image
\* included.
ConfigsGrid ==
    { a @@ b @@ c @@ d @@ e @@ f @@ g :
        a \in Required("counts_per_pixel", {1}),
        b \in Required("xsize", 1 .. GridXSize),
        c \in Required("ysize", 1 .. GridYSize),
        d \in Required("max_counts_per_iter", {1}),
        e \in Required("buffer_size", 0 .. MaxBuffer),
        f \in Required("nx", 1 .. GridNx),
        g \in Required("ny", 1 .. GridNy) }

BasesGrid == { [seed |-> 0, wcs |-> "tilted", noise |-> "Poisson"] }

\* The optional parameters given or left to their defaults, on an image of
\* the default mean-level grid's size.  counts_per_pixel = 20000 is the
\* documented scenario (max_counts_per_iter left at 1000, mean-level mode),
\* run on two sections.
CountsSizing ==
    { a @@ b : a \in Required("counts_per_pixel", 1 .. SizingCounts),
               b \in Optional("max_counts_per_iter", 1 .. SizingPerIter) }

ConfigsSizing ==
    { [xsize |-> DefaultNx, ysize |-> DefaultNy] @@ a @@ b @@ c @@ d @@ e @@ f :
        a \in CountsSizing,
        b \in Optional("buffer_size", {0}),
        c \in Optional("nx", {2}),
        d \in Optional("ny", {1}),
        e \in Optional("sed", {"sed"}),
        f \in Optional("sensor", SensorDicts) }
    \cup
    { [xsize |-> DefaultNx, ysize |-> DefaultNy, counts_per_pixel |-> 20000,
       nx |-> 2, ny |-> 1] @@ f :
        f \in Optional("sensor", SensorDicts) }

BasesSizing == { [seed |-> 0, wcs |-> "uniform", bandpass |-> "bandpass"] }

VARIABLES
    pc,               \* where the framework is in building the image
    config,           \* the image field's configuration dict
    base,             \* the base configuration dict
    self,             \* the builder's attributes
    image,            \* the output image
    niter,            \* addNoise: the number of iterations per section
    counts_per_iter,  \* addNoise: the mean level added per iteration
    base_image,       \* addNoise: the noise-free image added at each iteration
    idx,              \* addNoise: <<i, j>>, the section being worked on
    it,               \* addNoise: the iteration about to run
    section,          \* addNoise: the image built up for this section
    rng,              \* the state of the random deviate
    draws,            \* how many values were drawn from rng in this run
    calls,            \* the calls made on the collaborators in this run
    incs,             \* the increments added to section so far
    area_arg,         \* the image last passed to calculate_pixel_areas
    merged,           \* the sections merged in this run, with their final images
    error,            \* the exception that ended the run, if any
    entry,            \* the collaborators' state when addNoise was entered
    prev              \* the output of the previous run of the same inputs

vars == <<pc, config, base, self, image, niter, counts_per_iter, base_image,
          idx, it, section, rng, draws, calls, incs, area_arg, merged, error,
          entry, prev>>

locals == <<niter, counts_per_iter, base_image, idx, it, section>>
ghosts == <<incs, area_arg, merged>>

NoPrev == [run |-> FALSE]

InitWith(cfg, b) ==
    /\ pc = "start"
    /\ config = cfg
    /\ base = b
    /\ self = EmptyDict
    /\ image = NoImage
    /\ niter = 0
    /\ counts_per_iter = RZero
    /\ base_image = NoImage
    /\ idx = <<0, 0>>
    /\ it = 0
    /\ section = NoImage
    /\ rng = [seed |-> 0, pos |-> 0]
    /\ draws = 0
    /\ calls = <<>>
    /\ incs = <<>>
    /\ area_arg = NoImage
    /\ merged = <<>>
    /\ error = "none"
    /\ entry = EmptyDict
    /\ prev = NoPrev

InitModes == \E cfg \in ConfigsModes : \E b \in BasesModes(cfg) : InitWith(cfg, b)
InitGrid == \E cfg \in ConfigsGrid : \E b \in BasesGrid : InitWith(cfg, b)
InitSizing == \E cfg \in ConfigsSizing : \E b \in BasesSizing : InitWith(cfg, b)

Init == InitModes \/ InitGrid \/ InitSizing

(***************************************************************************)
(* LSST_FlatBuilder.setup                                                  *)
(***************************************************************************)
\* Mutant: the sed is looked for among the parsed parameters, which leave it
\* out, so it is never found.
SetupSelfSedNotFound(cfg) ==
    [counts_per_pixel |-> cfg.counts_per_pixel,
     xsize |-> cfg.xsize,
     ysize |-> cfg.ysize,
     buffer_size |-> Get(cfg, "buffer_size", DefaultBufferSize),
     max_counts_per_iter |-> Get(cfg, "max_counts_per_iter", DefaultMaxCountsPerIter),
     sed |-> FALSE,
     nx |-> Get(cfg, "nx", DefaultNx),
     ny |-> Get(cfg, "ny", DefaultNy)]

SetupSelf(cfg) ==
    [counts_per_pixel |-> cfg.counts_per_pixel,
     xsize |-> cfg.xsize,
     ysize |-> cfg.ysize,
     buffer_size |-> Get(cfg, "buffer_size", DefaultBufferSize),
     max_counts_per_iter |-> Get(cfg, "max_counts_per_iter", DefaultMaxCountsPerIter),
     sed |-> Has(cfg, "sed"),
     nx |-> IF Has(cfg, "sed") THEN Get(cfg, "nx", DefaultNxSed)
            ELSE Get(cfg, "nx", DefaultNx),
     ny |-> IF Has(cfg, "sed") THEN Get(cfg, "ny", DefaultNySed)
            ELSE Get(cfg, "ny", DefaultNy)]

\* Mutant: the image size is left out.
NrecalcPerPixel(s) == s.max_counts_per_iter

\* config['sensor']['nrecalc'] = max_counts_per_iter * xsize * ysize
Nrecalc(s) == s.max_counts_per_iter * s.xsize * s.ysize

SetupConfig(cfg, s) ==
    IF Has(cfg, "sensor") /\ ~Has(cfg.sensor, "nrecalc")
    THEN [cfg EXCEPT !.sensor = [nrecalc |-> Nrecalc(s)] @@ @]
    ELSE cfg

Setup ==
    /\ pc = "start"
    /\ self' = SetupSelf(config)
    /\ config' = SetupConfig(config, self')
    /\ pc' = "ready"
    /\ UNCHANGED <<base, image, locals, rng, draws, calls, ghosts, error, entry, prev>>

(***************************************************************************)
(* LSST_FlatBuilder.buildImage                                             *)
(***************************************************************************)
BuildImage ==
    /\ pc = "ready"
    /\ image' = ZeroImage(BoundsI(1, self.xsize, 1, self.ysize))
    /\ base' = [image_type |-> "FLAT"] @@ base
    /\ pc' = "built"
    /\ UNCHANGED <<config, self, locals, rng, draws, calls, ghosts, error, entry, prev>>

(***************************************************************************)
(* The collaborators addNoise calls.                                       *)
(***************************************************************************)
\* The random deviate: [seed, pos], the stream it draws from and how far
\* along it is.  Draw(r, k) is the k-th value drawn from r as it stands.
Mix(seed, n) == ((2 * seed + 3) * (n + 1) * (n + 2) + (n \div 3)) % RngMod

Draw(r, k) == Mix(r.seed, r.pos + k - 1)

\* Mutant: every consumer starts the stream afresh.
AdvanceRestart(r, n) == [r EXCEPT !.pos = n]

Advance(r, n) == [r EXCEPT !.pos = @ + n]

\* Mutant: the deviate is used where the last image left it.
GetRNGStale == rng

\* galsim.config.GetRNG: the deviate of this image.
GetRNG == [seed |-> base.seed, pos |-> 0]

\* A Poisson deviate of the given mean, realized from the draw d.
PoissonDraw(mean, d) == RFloor(mean) + (d % 2)

\* wcs.makeSkyImage(img, sky_level=1.): the relative area of each pixel.
PixelArea(w, p) == IF w = "uniform" THEN 1 ELSE 1 + ((p[1] + p[2]) % 2)

makeSkyImage(img, w) ==
    [img EXCEPT !.val = [p \in DOMAIN img.val |-> RInt(PixelArea(w, p))]]

Scale(img, c) == [img EXCEPT !.val = [p \in DOMAIN img.val |-> RMul(img.val[p], c)]]

AddImages(a, b) == [a EXCEPT !.val = [p \in DOMAIN a.val |-> RAdd(a.val[p], b.val[p])]]

\* sensor.calculate_pixel_areas(img): 1.0 for the trivial galsim.Sensor, and
\* for the silicon sensor an image of areas that shrink with the charge
\* already in the pixel, over a fixed (tree ring) pattern.
IsSilicon == Has(base, "sensor")

SiliconAreas(img) ==
    [img EXCEPT !.val = [p \in DOMAIN img.val |->
        RDiv(RInt(1 + (p[1] % 2)), RAdd(RInt(1), img.val[p]))]]

\* temp *= area / np.mean(area.array), when area is an image
Reweight(temp, sect) ==
    IF IsSilicon
    THEN LET area == SiliconAreas(sect)
             m == Mean(area)
         IN  [temp EXCEPT !.val = [p \in DOMAIN temp.val |->
                 RDiv(RMul(temp.val[p], area.val[p]), m)]]
    ELSE temp

\* galsim.config.AddNoise(base, temp, 0., logger): nothing without a noise
\* field; with one, each pixel becomes a Poisson realization of its mean,
\* the pixels drawing from the deviate s in array order.
NoiseDraws(temp) == IF Has(base, "noise") THEN Area(temp.bounds) ELSE 0

Realize(temp, s) ==
    IF Has(base, "noise")
    THEN [temp EXCEPT !.val = [p \in DOMAIN temp.val |->
             RInt(PoissonDraw(temp.val[p], Draw(s, ArrayIndex(temp.bounds, p))))]]
    ELSE temp

(***************************************************************************)
(* LSST_FlatBuilder.addNoise, up to its loops.                             *)
(***************************************************************************)
Event(op) == [op |-> op, sec |-> idx, it |-> it]

\* Mutant: the quotient is truncated, not rounded up.
NiterFloor(s) == RFloor(Rat(s.counts_per_pixel, s.max_counts_per_iter))

Niter(s) == Ceil(Rat(s.counts_per_pixel, s.max_counts_per_iter))

\* Mutant: every iteration adds the maximum level.
CountsPerIterMax(s, n) == RInt(s.max_counts_per_iter)

CountsPerIter(s, n) == Rat(s.counts_per_pixel, n)

\* base_image: zero with a sed; else the sky image rescaled to mean cpi
BaseImage(cpi) ==
    LET blank == ZeroImage(withBorder(image.bounds, self.buffer_size))
        sky == makeSkyImage(blank, base.wcs)
    IN  IF self.sed THEN blank ELSE Scale(sky, RDiv(cpi, Mean(sky)))

\* Mutant: the bandpass is not checked for.
MissingBandpassUnchecked == FALSE

MissingBandpass == self.sed /\ ~Has(base, "bandpass")

AddNoiseEnter ==
    /\ pc = "built"
    /\ entry' = [image |-> image, rng |-> rng, calls |-> <<>>]
    /\ rng' = GetRNG
    /\ draws' = 0
    /\ calls' = <<[op |-> "updateRNG", sec |-> <<0, 0>>, it |-> 0]>>
    /\ niter' = Niter(self)
    /\ counts_per_iter' = CountsPerIter(self, niter')
    /\ base_image' = BaseImage(counts_per_iter')
    /\ idx' = <<0, 0>>
    /\ it' = 0
    /\ IF MissingBandpass
       THEN pc' = "failed" /\ error' = "RuntimeError"
       ELSE pc' = "section" /\ error' = error
    /\ section' = NoImage
    /\ incs' = <<>>
    /\ area_arg' = NoImage
    /\ merged' = <<>>
    /\ UNCHANGED <<config, base, self, image, prev>>

(***************************************************************************)
(* The section loops.                                                      *)
(***************************************************************************)
Dx == (image.bounds.xmax - image.bounds.xmin + 1) \div self.nx
\* Mutant: the row height is rounded up.
DyRoundedUp == (image.bounds.ymax - image.bounds.ymin + self.ny) \div self.ny

Dy == (image.bounds.ymax - image.bounds.ymin + 1) \div self.ny
Ncol == image.bounds.xmax - image.bounds.xmin + 1
Nrow == image.bounds.ymax - image.bounds.ymin + 1

\* Mutant: the last column is not stretched to the image's edge.
XmaxNoRemainder(i) == (i + 1) * Dx

Xmax(i) == IF i = self.nx - 1 THEN Ncol ELSE (i + 1) * Dx
Ymax(j) == IF j = self.ny - 1 THEN Nrow ELSE (j + 1) * Dy

SecBounds(ij) == BoundsI(ij[1] * Dx + 1, Xmax(ij[1]), ij[2] * Dy + 1, Ymax(ij[2]))

\* Mutant: the section is worked on without its border.
WorkBoundsNoBorder(ij) == SecBounds(ij)

WorkBounds(ij) == withBorder(SecBounds(ij), self.buffer_size)

\* Mutant: the copy of the base image is not zeroed.
NewSectionNotZeroed(b) == SubImage(base_image, b)

\* section = base_image[bounds].copy(); section.setZero()
NewSection(b) == ZeroImage(SubImage(base_image, b).bounds)

SectionStart ==
    /\ pc = "section"
    /\ IF Includes(base_image.bounds, WorkBounds(idx))
       THEN /\ section' = NewSection(WorkBounds(idx))
            /\ pc' = IF niter > 0 THEN "iter" ELSE "merge"
            /\ error' = error
       ELSE /\ section' = section
            /\ pc' = "failed"
            /\ error' = "GalSimBoundsError"
    /\ it' = 0
    /\ incs' = <<>>
    /\ area_arg' = NoImage
    /\ UNCHANGED <<config, base, self, image, niter, counts_per_iter, base_image,
                   idx, rng, draws, calls, merged, entry, prev>>

\* The logger.debug call that ends an iteration reads section[sec_bounds].
AfterIteration ==
    IF Includes(section.bounds, SecBounds(idx))
    THEN /\ it' = it + 1
         /\ pc' = IF it + 1 < niter THEN "iter" ELSE "merge"
         /\ error' = error
    ELSE /\ it' = it
         /\ pc' = "failed"
         /\ error' = "GalSimBoundsError"

IterateMean ==
    /\ pc = "iter"
    /\ ~self.sed
    /\ LET temp == Reweight(SubImage(base_image, section.bounds), section)
           real == Realize(temp, rng)
       IN  /\ section' = AddImages(section, real)
           /\ incs' = Append(incs, real)
           /\ rng' = Advance(rng, NoiseDraws(temp))
           /\ draws' = draws + NoiseDraws(temp)
    /\ area_arg' = section
    /\ calls' = calls \o <<Event("calculate_pixel_areas"), Event("AddNoise")>>
    /\ AfterIteration
    /\ UNCHANGED <<config, base, self, image, niter, counts_per_iter, base_image,
                   idx, merged, entry, prev>>

\* The photons of one iteration: their number is a Poisson deviate of mean
\* counts_per_iter * bounds.area(), then all x, then all y are drawn
\* uniformly, the wavelength sampler draws a wavelength for each, and the
\* silicon sensor draws once more for each as it accumulates them.
NPhotons(b, r) == PoissonDraw(RMul(counts_per_iter, RInt(Area(b))), Draw(r, 1))

PhotonDraws(b, r) ==
    LET n == NPhotons(b, r)
    IN  1 + 3 * n + (IF IsSilicon THEN n ELSE 0)

\* photons.x * (xmax - xmin + 1) + xmin - 0.5, as the pixel it falls in
PhotonX(b, r, k) == b.xmin + (Draw(r, 1 + k) * (b.xmax - b.xmin + 1)) \div RngMod
PhotonY(b, r, k) ==
    b.ymin + (Draw(r, 1 + NPhotons(b, r) + k) * (b.ymax - b.ymin + 1)) \div RngMod
Wavelength(b, r, k) == Draw(r, 1 + 2 * NPhotons(b, r) + k)

\* Where sensor.accumulate puts photon k: in its pixel for the trivial
\* sensor; the silicon sensor moves it by up to a pixel in x, by its
\* wavelength and a draw of its own.
Landing(b, r, k) ==
    IF IsSilicon
    THEN <<PhotonX(b, r, k)
             + ((Wavelength(b, r, k) + Draw(r, 1 + 3 * NPhotons(b, r) + k)) % 3) - 1,
           PhotonY(b, r, k)>>
    ELSE <<PhotonX(b, r, k), PhotonY(b, r, k)>>

\* The image of the photons accumulated; those landing outside are lost.
Accumulated(b, r) ==
    [bounds |-> b,
     val |-> [p \in Pixels(b) |->
        RInt(Cardinality({k \in 1 .. NPhotons(b, r) : Landing(b, r, k) = p}))]]

IterateSed ==
    /\ pc = "iter"
    /\ self.sed
    /\ LET shot == Accumulated(section.bounds, rng)
       IN  /\ section' = AddImages(section, shot)
           /\ incs' = Append(incs, shot)
    /\ rng' = Advance(rng, PhotonDraws(section.bounds, rng))
    /\ draws' = draws + PhotonDraws(section.bounds, rng)
    /\ calls' = calls \o <<Event("WavelengthSampler"), Event("accumulate")>>
    /\ AfterIteration
    /\ UNCHANGED <<config, base, self, image, niter, counts_per_iter, base_image,
                   idx, area_arg, merged, entry, prev>>

\* Mutant: the whole working image is merged, border included.
MergeRegionWithBorder(sec, work) == Pixels(work)

\* The pixels of the output that the merge of a section writes:
\* image[sec_bounds] += section[sec_bounds]
MergeRegion(sec, work) == Pixels(sec)

\* Mutant: the loops are nested the other way round.
NextIndexRowFirst(ij) ==
    IF ij[1] + 1 < self.nx THEN <<ij[1] + 1, ij[2]>>
    ELSE IF ij[2] + 1 < self.ny THEN <<0, ij[2] + 1>> ELSE <<self.nx, 0>>

\* for i in range(nx): for j in range(ny)
NextIndex(ij) == IF ij[2] + 1 < self.ny THEN <<ij[1], ij[2] + 1>> ELSE <<ij[1] + 1, 0>>

Merge ==
    /\ pc = "merge"
    /\ IF Includes(image.bounds, SecBounds(idx)) /\ Includes(section.bounds, SecBounds(idx))
       THEN /\ image' = [image EXCEPT !.val = [p \in DOMAIN image.val |->
                            IF p \in MergeRegion(SecBounds(idx), section.bounds)
                            THEN RAdd(image.val[p], section.val[p])
                            ELSE image.val[p]]]
            /\ merged' = Append(merged,
                   [sec |-> idx, section |-> section,
                    region |-> MergeRegion(SecBounds(idx), section.bounds)
                                   \cap DOMAIN image.val])
            /\ calls' = Append(calls, Event("merge"))
            /\ idx' = NextIndex(idx)
            /\ pc' = IF idx'[1] < self.nx THEN "section" ELSE "done"
            /\ error' = error
       ELSE /\ pc' = "failed"
            /\ error' = "GalSimBoundsError"
            /\ UNCHANGED <<image, merged, calls, idx>>
    /\ UNCHANGED <<config, base, self, niter, counts_per_iter, base_image, it,
                   section, rng, draws, incs, area_arg, entry, prev>>

(***************************************************************************)
(* The framework builds the image once more from the same configuration    *)
(* and the same state of the random stream, keeping the first output.      *)
(***************************************************************************)
NextImage ==
    /\ pc = "done"
    /\ ~prev.run
    /\ prev' = [run |-> TRUE, image |-> image, rng |-> rng, draws |-> draws,
                 calls |-> calls]
    /\ pc' = "start"
    /\ UNCHANGED <<config, base, self, image, locals, rng, draws, calls, ghosts,
                   error, entry>>

Next ==
    \/ Setup
    \/ BuildImage
    \/ AddNoiseEnter
    \/ SectionStart
    \/ IterateMean
    \/ IterateSed
    \/ Merge
    \/ NextImage

Spec == Init /\ [][Next]_vars

(***************************************************************************)
(* Properties.                                                             *)
(***************************************************************************)
Built == pc \in {"built", "section", "iter", "merge", "done", "failed"}
Entered == pc \in {"section", "iter", "merge", "done", "failed"}
InSection == pc \in {"iter", "merge"}

Grid == (0 .. self.nx - 1) \X (0 .. self.ny - 1)

\* C1: the interiors of the sections partition the image rectangle: every
\* interior lies in the image and every pixel of the image lies in the
\* interior of exactly one section, whether or not nx divides ncol and ny
\* divides nrow.
C1_SectionsPartitionImage ==
    Built =>
        /\ \A ij \in Grid : Pixels(SecBounds(ij)) \subseteq Pixels(image.bounds)
        /\ \A p \in Pixels(image.bounds) :
              Cardinality({ij \in Grid : p \in Pixels(SecBounds(ij))}) = 1

C1_Witness ==
    /\ pc = "done"
    /\ self.nx > 1 /\ self.ny > 1
    /\ Ncol % self.nx # 0 /\ Nrow % self.ny # 0

\* C2: niter is the ceiling of counts_per_pixel / max_counts_per_iter and is
\* at least 1, counts_per_iter is counts_per_pixel / niter, so niter times
\* counts_per_iter is counts_per_pixel and counts_per_iter is at most
\* max_counts_per_iter; 20000 over 1000 gives 20.
C2_IterationCount ==
    Entered =>
        LET cpp == self.counts_per_pixel
            mcpi == self.max_counts_per_iter
        IN  /\ niter >= 1
            /\ (niter - 1) * mcpi < cpp /\ cpp <= niter * mcpi
            /\ counts_per_iter[1] * niter = cpp * counts_per_iter[2]
            /\ RMul(RInt(niter), counts_per_iter) = RInt(cpp)
            /\ counts_per_iter[1] <= mcpi * counts_per_iter[2]
            /\ (cpp = 20000 /\ mcpi = 1000 => niter = 20)

C2_Witness ==
    /\ Entered
    /\ self.counts_per_pixel % self.max_counts_per_iter # 0
    /\ niter > 1

\* C3: with a sed and no bandpass in base, addNoise ends in an error before
\* any pixel data is computed: no section is started, no increment or photon
\* list is made, nothing is drawn, and the output image is as on entry.
C3_NoBandpassFailsFirst ==
    (Entered /\ self.sed /\ ~Has(base, "bandpass")) =>
        /\ pc = "failed"
        /\ error = "RuntimeError"
        /\ image = entry.image
        /\ section = NoImage
        /\ incs = <<>>
        /\ merged = <<>>
        /\ draws = 0
        /\ \A p \in DOMAIN base_image.val : base_image.val[p] = RZero
        /\ \A k \in 1 .. Len(calls) : calls[k].op = "updateRNG"

C3_Witness ==
    /\ pc = "failed"
    /\ error = "RuntimeError"
    /\ self.sed
    /\ image.bounds = BoundsI(1, self.xsize, 1, self.ysize)

MergesCovering(p) == {k \in 1 .. Len(merged) : p \in merged[k].region}

C5_MergeInteriorOnly ==
    (pc \in {"section", "iter", "merge", "done"}) =>
        /\ \A k \in 1 .. Len(merged) :
              merged[k].region = Pixels(SecBounds(merged[k].sec))
        /\ \A p \in Pixels(image.bounds) :
              /\ Cardinality(MergesCovering(p)) <= 1
              /\ pc = "done" => Cardinality(MergesCovering(p)) = 1
              /\ MergesCovering(p) = {} => image.val[p] = RZero
              /\ \A k \in MergesCovering(p) : image.val[p] = merged[k].section.val[p]

\* A finished run in which a merged section held a nonzero value in its
\* border, at a pixel of the image.
C5_Witness ==
    /\ pc = "done"
    /\ Len(merged) > 1
    /\ \E k \in 1 .. Len(merged) :
          \E p \in Pixels(merged[k].section.bounds) \cap Pixels(image.bounds) :
              /\ p \notin Pixels(SecBounds(merged[k].sec))
              /\ merged[k].section.val[p] # RZero

\* C6: the sections are worked on in one order, i from 0 to nx-1 and within
\* it j from 0 to ny-1; each section runs its iterations 0 .. niter-1 in
\* order and is merged before the next section starts, and a finished run
\* has worked on each section exactly once.
IsStep(e) == e.op \in {"calculate_pixel_areas", "accumulate", "merge"}
Steps == SelectSeq(calls, IsStep)

\* The n-th step (from 0) of a run: niter iterations, then the merge, for
\* each section in turn.
ExpectedStep(n) ==
    LET s == n \div (niter + 1)
        r == n % (niter + 1)
    IN  [sec |-> <<s \div self.ny, s % self.ny>>,
         it |-> r,
         merge |-> (r = niter)]

C6_FixedOrder ==
    Entered =>
        /\ \A n \in 1 .. Len(Steps) :
              /\ Steps[n].sec = ExpectedStep(n - 1).sec
              /\ Steps[n].it = ExpectedStep(n - 1).it
              /\ (Steps[n].op = "merge") = ExpectedStep(n - 1).merge
        /\ pc = "done" => Len(Steps) = self.nx * self.ny * (niter + 1)

C6_Witness ==
    /\ pc = "done"
    /\ self.nx > 1 /\ self.ny > 1 /\ niter > 1

\* C7: in mean-level mode with the trivial sensor, no noise field and a
\* uniform pixel area, every increment is counts_per_iter at every pixel,
\* each section adds niter of them, and every pixel of the finished image
\* is counts_per_pixel.
Ideal ==
    /\ ~self.sed
    /\ ~Has(base, "sensor")
    /\ ~Has(base, "noise")
    /\ base.wcs = "uniform"

C7_MeanLevel ==
    (pc \in {"iter", "merge", "done"} /\ Ideal) =>
        /\ \A k \in 1 .. Len(incs) :
              \A p \in DOMAIN incs[k].val :
                  incs[k].val[p] = Rat(self.counts_per_pixel, niter)
        /\ pc \in {"merge", "done"} => Len(incs) = niter
        /\ pc = "done" =>
              \A p \in Pixels(image.bounds) : image.val[p] = RInt(self.counts_per_pixel)

C7_Witness ==
    /\ pc = "done"
    /\ Ideal
    /\ niter > 1
    /\ self.counts_per_pixel % self.max_counts_per_iter # 0

\* C8: setup adds nrecalc = max_counts_per_iter * xsize * ysize (1000 when
\* max_counts_per_iter is not given) to a sensor entry of the image config
\* that has none, and otherwise leaves the configuration as it was.
C8_SetupForwardsNrecalc ==
    [][pc = "start" =>
        IF "sensor" \in DOMAIN config /\ "nrecalc" \notin DOMAIN config.sensor
        THEN /\ DOMAIN config' = DOMAIN config
             /\ \A k \in DOMAIN config \ {"sensor"} : config'[k] = config[k]
             /\ DOMAIN config'.sensor = DOMAIN config.sensor \cup {"nrecalc"}
             /\ \A k \in DOMAIN config.sensor : config'.sensor[k] = config.sensor[k]
             /\ config'.sensor.nrecalc =
                  (IF "max_counts_per_iter" \in DOMAIN config
                   THEN config.max_counts_per_iter ELSE 1000)
                  * config.xsize * config.ysize
        ELSE config' = config]_vars

C8_Witness ==
    /\ pc = "ready"
    /\ ~prev.run
    /\ Has(config, "sensor")
    /\ Has(config, "max_counts_per_iter")
    /\ Has(config.sensor, "nrecalc")
    /\ config.sensor.nrecalc = config.max_counts_per_iter * config.xsize * config.ysize

\* C9: the image a section is accumulated in, and the image the sensor's
\* areas are calculated for, have the section's interior bounds widened by
\* buffer_size on each of the four sides; with buffer_size 0 they are the
\* interior bounds.
Widened(b, k) ==
    [xmin |-> b.xmin - k, xmax |-> b.xmax + k, ymin |-> b.ymin - k, ymax |-> b.ymax + k]

C9_WorkingBounds ==
    InSection =>
        /\ section.bounds = Widened(SecBounds(idx), self.buffer_size)
        /\ DOMAIN section.val = Pixels(Widened(SecBounds(idx), self.buffer_size))
        /\ (~self.sed /\ it > 0) => area_arg.bounds = section.bounds
        /\ self.buffer_size = 0 => section.bounds = SecBounds(idx)

C9_Witness ==
    /\ pc = "iter"
    /\ it > 0
    /\ ~self.sed
    /\ self.buffer_size > 0
    /\ idx # <<0, 0>>
    /\ area_arg.bounds # SecBounds(idx)

\* C10: in mean-level mode a section's image starts at zero whatever the
\* sections before it held, calculate_pixel_areas is called in iteration k
\* on the sum of the section's increments of iterations 0 .. k-1, before the
\* increment of iteration k is added, and after the last iteration the
\* image is the sum of niter increments.
RECURSIVE SumIncs(_, _)
SumIncs(b, n) == IF n = 0 THEN ZeroImage(b) ELSE AddImages(SumIncs(b, n - 1), incs[n])

C10_AccumulatorFeedback ==
    (InSection /\ ~self.sed) =>
        /\ Len(incs) = it
        /\ section = SumIncs(section.bounds, it)
        /\ it > 0 => area_arg = SumIncs(section.bounds, it - 1)
        /\ pc = "merge" => it = niter

C10_Witness ==
    /\ pc = "merge"
    /\ ~self.sed
    /\ Has(base, "sensor")
    /\ niter > 1
    /\ idx # <<0, 0>>
    /\ area_arg # ZeroImage(section.bounds)
    /\ area_arg # section

\* C11: a run uses one random stream: it is obtained and handed to the
\* sensor (updateRNG) once, as the first call of the run, before any
\* section; it stays the stream of this image, its position is the number
\* of values drawn in the run, and from step to step of the run neither
\* goes down.
IsUpdateRNG(e) == e.op = "updateRNG"

C11_SingleStream ==
    [][Entered' =>
        /\ Len(SelectSeq(calls', IsUpdateRNG)) = 1
        /\ calls'[1].op = "updateRNG"
        /\ rng'.seed = base'.seed
        /\ rng'.pos = draws'
        /\ Entered => (rng'.seed = rng.seed /\ rng'.pos >= rng.pos /\ draws' >= draws)
      ]_vars

C11_Witness ==
    /\ pc = "iter"
    /\ it > 0
    /\ idx # <<0, 0>>
    /\ draws > Area(section.bounds)
    /\ rng.seed # 0

\* C12: when addNoise raises for a sed without a bandpass, no operation of
\* the sensor has been invoked (updateRNG, calculate_pixel_areas and
\* accumulate included) and the random stream has been neither handed out
\* nor advanced: the collaborators are as they were on entry.
\* addNoise calls GetRNG and sensor.updateRNG before it looks for the
\* bandpass, so this fails of the program.
C12_NothingInvokedBeforeError ==
    (pc = "failed" /\ error = "RuntimeError") =>
        /\ calls = entry.calls
        /\ rng = entry.rng
        /\ draws = 0

\* C13: the mode of a run is fixed by whether the image config has a sed.
\* Without one the run never calls accumulate or the wavelength sampler,
\* and a finished run has called calculate_pixel_areas and the noise
\* realization nx * ny * niter times each; with one it never calls
\* calculate_pixel_areas or the noise realization, and a finished run has
\* called the wavelength sampler and accumulate nx * ny * niter times each.
IsAreas(e) == e.op = "calculate_pixel_areas"
IsNoise(e) == e.op = "AddNoise"
IsSampler(e) == e.op = "WavelengthSampler"
IsAccumulate(e) == e.op = "accumulate"

C13_ModesExclusive ==
    Entered =>
        LET n == self.nx * self.ny * niter
            areas == Len(SelectSeq(calls, IsAreas))
            noise == Len(SelectSeq(calls, IsNoise))
            sampler == Len(SelectSeq(calls, IsSampler))
            accumulate == Len(SelectSeq(calls, IsAccumulate))
        IN  IF "sed" \in DOMAIN config
            THEN /\ areas = 0 /\ noise = 0
                 /\ pc = "done" => (sampler = n /\ accumulate = n)
            ELSE /\ sampler = 0 /\ accumulate = 0
                 /\ pc = "done" => (areas = n /\ noise = n)

C13_Witness ==
    /\ pc = "done"
    /\ "sed" \in DOMAIN config
    /\ self.nx * self.ny > 1
    /\ niter > 1
    /\ Len(SelectSeq(calls, IsAccumulate)) = self.nx * self.ny * niter

\* C14: when 1 <= nx <= ncol and 1 <= ny <= nrow every section's interior
\* is non-empty; the columns of sections are floor(ncol / nx) wide except
\* the last, which is wider by ncol mod nx (at most nx - 1), and the rows
\* floor(nrow / ny) high except the last, which is higher by nrow mod ny (at
\* most ny - 1); and every working rectangle lies within the image
\* rectangle widened by buffer_size.
Width(b) == b.xmax - b.xmin + 1
Height(b) == b.ymax - b.ymin + 1

C14_SectionSizes ==
    (Built /\ self.nx >= 1 /\ self.nx <= self.xsize
           /\ self.ny >= 1 /\ self.ny <= self.ysize) =>
        \A ij \in Grid :
            LET sec == SecBounds(ij)
                w == self.xsize \div self.nx
                h == self.ysize \div self.ny
                frame == [xmin |-> 1 - self.buffer_size,
                          xmax |-> self.xsize + self.buffer_size,
                          ymin |-> 1 - self.buffer_size,
                          ymax |-> self.ysize + self.buffer_size]
            IN  /\ Width(sec) >= 1 /\ Height(sec) >= 1
                /\ Width(sec) = IF ij[1] = self.nx - 1
                                THEN w + (self.xsize % self.nx) ELSE w
                /\ Height(sec) = IF ij[2] = self.ny - 1
                                 THEN h + (self.ysize % self.ny) ELSE h
                /\ Width(sec) - w <= self.nx - 1
                /\ Height(sec) - h <= self.ny - 1
                /\ frame.xmin <= WorkBounds(ij).xmin /\ WorkBounds(ij).xmax <= frame.xmax
                /\ frame.ymin <= WorkBounds(ij).ymin /\ WorkBounds(ij).ymax <= frame.ymax

C14_Witness ==
    /\ pc = "done"
    /\ self.nx > 1 /\ self.nx <= self.xsize
    /\ self.ny > 1 /\ self.ny <= self.ysize
    /\ self.xsize % self.nx > 1
    /\ self.ysize % self.ny > 0
    /\ self.buffer_size > 0
    /\ Len(merged) = self.nx * self.ny

====
